---- MODULE Spec2Model ----
(***************************************************************************)
(* A model of src/main.py: the two request handlers that shell out to      *)
(* external processes.                                                     *)
(*                                                                         *)
(*   search_and_prepare_song_sse  an SSE status feed; runs yt-dlp once to  *)
(*                                fetch metadata (Popen + communicate(30)) *)
(*   stream_audio                 resolves a direct URL with yt-dlp        *)
(*                                (Popen + communicate(20)), then spawns   *)
(*                                ffmpeg and relays its stdout in 8192     *)
(*                                byte reads (generate_audio_chunks)       *)
(*                                                                         *)
(* One request is followed from its arrival to the point where no code of  *)
(* the handler can run for it any more.  The external processes, the       *)
(* kernel pipes between them and the handler, the timers of communicate()  *)
(* and wait(), and the HTTP client are the environment.                    *)
(***************************************************************************)
EXTENDS Integers, Sequences, FiniteSets, TLC

\* ------------------------------------------------------------------ bounds

\* Longest stderr a yt-dlp process writes (bytes).
MaxErrLen == 2
\* Longest stdout the yt-dlp --get-url process writes (tokens).
MaxOutLen == 2
\* Most bytes ffmpeg writes to its stdout.
MaxStream == 5
\* The size of one relay read; stands for the 8192 of read(8192), scaled.
ChunkSize == 2
\* Capacity of the kernel pipe behind ffmpeg's stdout.
PipeCap == 3
\* Capacity of the kernel pipe behind ffmpeg's stderr.
StderrCap == 1
\* Most entries ytmusic.search returns.
MaxCandidates == 2

\* ------------------------------------------------------------ value sets

ProcIds == {"info", "url", "ffmpeg"}

\* Bytes of a stderr text: a letter, a blank, a byte that is not valid UTF-8.
ErrBytes == {"e", " ", "#"}
\* stdout of yt-dlp --get-url, by token: the two accepted schemes, another
\* printable run, a blank, a byte that is not valid UTF-8.
OutTokens == {"http://", "https://", "x", " ", "#"}
\* stdout of yt-dlp --dump-json, by what json.loads makes of it.
JsonKinds == {"json", "not_json"}
\* Audio bytes.
Bytes == {0, 1}

\* request.args.get('query'): absent, empty, or a search text.
Queries == {"None", "", "q"}
\* The <video_id> path segment.
VideoIds == {"", "v"}
\* What ytmusic.search gives: it raises, an empty list, a first entry
\* without the key, a first entry with an empty id, a first entry with an id.
SearchResults == {"raises", "empty", "no_key", "empty_id", "song"}
\* Exit codes a child ends with on its own.
ExitCodes == {0, 1}
\* An entry of the search results, by what yt-dlp would make of its video:
\* metadata that parses, or a failure.
Candidates == {"resolves", "fails"}

BoundedSeq(S, n) == UNION {[1..k -> S] : k \in 0..n}

VARIABLES
    request,     \* the request being served: its route and its parameter
    pc,          \* where the handler (or its generator) stands
    client,      \* the HTTP client: "connected" or "gone"
    events,      \* SSE events yielded so far, in order
    responses,   \* Response objects the handler returned, in order
    searchCalls, \* calls of ytmusic.search
    search,      \* what ytmusic.search returned: its kind, its ranked entries
    attempts,    \* ranks of the entries yt-dlp was started for, in order
    proc,        \* per process: lifecycle and the parent's pipe ends
    output,      \* per yt-dlp process: what it wrote (read by communicate)
    ff,          \* ffmpeg, the child's side: its pipe ends, what it waits on
    written,     \* every byte ffmpeg wrote to its stdout, in order
    stdoutPipe,  \* bytes in the stdout pipe, not yet read by the relay
    stderrPipe,  \* number of bytes in the stderr pipe, not yet read
    buf,         \* bytes the current read(8192) holds / the chunk at yield
    delivered,   \* concatenation of the chunks yielded
    cause        \* why generate_audio_chunks left its loop

vars == <<request, pc, client, events, responses, searchCalls, search,
          attempts, proc, output, ff,
          written, stdoutPipe, stderrPipe, buf, delivered, cause>>

\* ------------------------------------------------------ pure conversions

IsBlank(c) == c = " "

RECURSIVE LStrip(_)
LStrip(s) == IF s # <<>> /\ IsBlank(Head(s)) THEN LStrip(Tail(s)) ELSE s

RECURSIVE RStrip(_)
RStrip(s) ==
    IF s # <<>> /\ IsBlank(s[Len(s)]) THEN RStrip(SubSeq(s, 1, Len(s) - 1))
    ELSE s

\* str.strip()
Strip(s) == RStrip(LStrip(s))

\* bytes.decode(errors='ignore'): bytes that do not decode are dropped.
DecodeIgnore(s) == SelectSeq(s, LAMBDA c : c # "#")

\* bytes.decode() raises UnicodeDecodeError on such a byte.
DecodeRaises(s) == \E i \in 1..Len(s) : s[i] = "#"

\* str.startswith(('http://', 'https://'))
StartsWithHttp(s) == s # <<>> /\ Head(s) \in {"http://", "https://"}

\* Whether part occurs in whole as a contiguous run.
Contains(whole, part) ==
    \E i \in 0..(Len(whole) - Len(part)) :
        SubSeq(whole, i + 1, i + Len(part)) = part

\* ------------------------------------------------------------------ state

NoProc == [state |-> "none", code |-> <<>>, returncode |-> <<>>,
           stdout |-> "none", stderr |-> "none",
           terminated |-> FALSE, killed |-> FALSE]

NoOutput == [stdout |-> <<>>, json |-> "json", stderr |-> <<>>]

NoRequest == [route |-> "none", arg |-> "None"]

NoSearch == [result |-> "none", candidates |-> <<>>]

Init ==
    /\ request = NoRequest
    /\ pc = "idle"
    /\ client = "connected"
    /\ events = <<>>
    /\ responses = <<>>
    /\ searchCalls = 0
    /\ search = NoSearch
    /\ attempts = <<>>
    /\ proc = [p \in ProcIds |-> NoProc]
    /\ output = [p \in {"info", "url"} |-> NoOutput]
    /\ ff = [stdout |-> "none", stderr |-> "none", blocked |-> "no"]
    /\ written = <<>>
    /\ stdoutPipe = <<>>
    /\ stderrPipe = 0
    /\ buf = <<>>
    /\ delivered = <<>>
    /\ cause = "none"

\* subprocess.Popen(cmd, stdout=PIPE, stderr=PIPE): the child runs, the
\* parent holds the read end of both pipes.
Popen(p) ==
    proc' = [proc EXCEPT ![p] = [NoProc EXCEPT !.state = "running",
                                               !.stdout = "open",
                                               !.stderr = "open"]]

\* The end of a successful communicate(): both pipes read to the end and
\* closed, the child waited for, its exit status recorded.
Communicated(p) ==
    proc' = [proc EXCEPT ![p].stdout = "closed", ![p].stderr = "closed",
                         ![p].returncode = proc[p].code]

sse_message(status, kind, text) ==
    [status |-> status, kind |-> kind, text |-> text]

Yield(ev) == events' = Append(events, ev)

MakeResponse(status, mimetype, kind, text) ==
    [status |-> status, mimetype |-> mimetype, kind |-> kind, text |-> text]

Return(r) == responses' = Append(responses, r)

StreamVars == <<ff, written, stdoutPipe, stderrPipe, buf, delivered, cause>>

\* ------------------------------------------------------------ the client

\* The client closes the connection.  The handler learns of it only when
\* the server next tries to write to it.
ClientDisconnect ==
    /\ client = "connected"
    /\ pc \notin {"idle", "done", "closed"}
    /\ client' = "gone"
    /\ UNCHANGED <<request, pc, events, responses, searchCalls, search, attempts, proc, output,
                   StreamVars>>

\* ------------------------------------------- search_and_prepare_song_sse

\* A check for an absent parameter only: an empty one passes.
QueryMissingOnlyNone(q) == q = "None"

\* `if not search_query`
QueryMissing(q) == q \in {"None", ""}

\* The route function: it only picks the generator of the response.
search_and_prepare_song_sse ==
    \E q \in Queries :
        /\ pc = "idle"
        /\ request' = [route |-> "search_and_prepare_song_sse", arg |-> q]
        /\ pc' = IF QueryMissing(q) THEN "error_gen_created"
                 ELSE "generate_events_created"
        /\ Return(MakeResponse(200, "text/event-stream", "sse", <<>>))
        /\ UNCHANGED <<client, events, searchCalls, search, attempts, proc, output, StreamVars>>

\* error_gen, run to its only yield.
error_gen ==
    /\ pc = "error_gen_created"
    /\ Yield(sse_message("error", "query_required", <<>>))
    /\ pc' = "error_gen_yielded"
    /\ UNCHANGED <<request, client, responses, searchCalls, search, attempts, proc, output, StreamVars>>

\* generate_events, from its start to the first yield.
generate_events_start ==
    /\ pc = "generate_events_created"
    /\ Yield(sse_message("searching", "searching", <<>>))
    /\ pc' = "ge_searching"
    /\ UNCHANGED <<request, client, responses, searchCalls, search, attempts, proc, output, StreamVars>>

\* The first match announced under the status of the detailed one.
SearchOutcomeWrongStatus(result) ==
    CASE result = "raises"   -> sse_message("error", "unexpected", <<>>)
      [] result = "empty"    -> sse_message("error", "no_songs", <<>>)
      [] result = "no_key"   -> sse_message("error", "unexpected", <<>>)
      [] result = "empty_id" -> sse_message("error", "no_video_id", <<>>)
      [] result = "song"     -> sse_message("found_detailed", "initial", <<>>)

\* The `if not video_id` check left out.
SearchOutcomeNoIdCheck(result) ==
    CASE result = "raises"   -> sse_message("error", "unexpected", <<>>)
      [] result = "empty"    -> sse_message("error", "no_songs", <<>>)
      [] result = "no_key"   -> sse_message("error", "unexpected", <<>>)
      [] result = "empty_id" -> sse_message("found_initial", "initial", <<>>)
      [] result = "song"     -> sse_message("found_initial", "initial", <<>>)

\* What the search segment yields, by what ytmusic.search gave.
SearchOutcome(result) ==
    CASE result = "raises"   -> sse_message("error", "unexpected", <<>>)
      [] result = "empty"    -> sse_message("error", "no_songs", <<>>)
      [] result = "no_key"   -> sse_message("error", "unexpected", <<>>)
      [] result = "empty_id" -> sse_message("error", "no_video_id", <<>>)
      [] result = "song"     -> sse_message("found_initial", "initial", <<>>)

\* From the first yield through ytmusic.search to the next yield.
generate_events_search ==
    /\ pc = "ge_searching"
    /\ \E result \in SearchResults :
        /\ searchCalls' = searchCalls + 1
        /\ \E entries \in BoundedSeq(Candidates, MaxCandidates) :
               /\ (entries = <<>>) = (result \in {"raises", "empty"})
               /\ search' = [result |-> result, candidates |-> entries]
        /\ Yield(SearchOutcome(result))
        /\ pc' = IF SearchOutcome(result).status = "error" THEN "ge_error"
                 ELSE "ge_found_initial"
    /\ UNCHANGED <<request, client, responses, attempts, proc, output,
                   StreamVars>>

\* subprocess.Popen of the metadata command; when it raises (yt-dlp is not
\* installed), `except Exception` yields the error.
generate_events_popen ==
    /\ pc = "ge_found_initial"
    /\ \/ /\ Popen("info")
          /\ attempts' = Append(attempts, 1)
          /\ pc' = "ge_communicate"
          /\ UNCHANGED events
       \/ /\ Yield(sse_message("error", "unexpected", <<>>))
          /\ pc' = "ge_error"
          /\ UNCHANGED <<proc, attempts>>
    /\ UNCHANGED <<request, client, responses, searchCalls, search, output,
                   StreamVars>>

\* The `return` after the error event of a failed fetch left out: the
\* generator goes on to parse and to announce the song.
MetadataOutcomeNoReturn(returncode, stderr, json) ==
    (IF returncode # 0
     THEN <<sse_message("error", "fetch_failed", Strip(DecodeIgnore(stderr)))>>
     ELSE <<>>)
    \o (IF json # "json"
        THEN <<sse_message("error", "json_parse", <<>>)>>
        ELSE <<sse_message("found_detailed", "detailed", <<>>)>>)

\* What follows communicate(): the events yielded up to the next
\* suspension, in order.
MetadataOutcome(returncode, stderr, json) ==
    IF returncode # 0
    THEN <<sse_message("error", "fetch_failed", Strip(DecodeIgnore(stderr)))>>
    ELSE IF json # "json"
    THEN <<sse_message("error", "json_parse", <<>>)>>
    ELSE <<sse_message("found_detailed", "detailed", <<>>)>>

\* communicate(timeout=30) returns: the child has exited.
generate_events_communicate ==
    /\ pc = "ge_communicate"
    /\ proc["info"].state = "exited"
    /\ Communicated("info")
    /\ LET evs == MetadataOutcome(proc["info"].code[1], output["info"].stderr,
                                  output["info"].json)
       IN /\ events' = events \o evs
          /\ pc' = IF evs[Len(evs)].status = "error" THEN "ge_error"
                   ELSE "ge_found_detailed"
    /\ UNCHANGED <<request, client, responses, searchCalls, search, attempts, output, StreamVars>>

\* communicate(timeout=30) raises TimeoutExpired: the child still runs.
\* The handler of the exception only logs and yields.
generate_events_timeout ==
    /\ pc = "ge_communicate"
    /\ proc["info"].state = "running"
    /\ Yield(sse_message("error", "timed_out", <<>>))
    /\ pc' = "ge_error"
    /\ UNCHANGED <<request, client, responses, searchCalls, search, attempts, proc, output, StreamVars>>

\* Resumed after found_detailed, to the last yield.
generate_events_ready ==
    /\ pc = "ge_found_detailed"
    /\ Yield(sse_message("ready_to_stream", "ready", <<>>))
    /\ pc' = "ge_ready"
    /\ UNCHANGED <<request, client, responses, searchCalls, search, attempts, proc, output, StreamVars>>

\* Resumed after an error event (`return`, or the end of an except block)
\* or after ready_to_stream: the generator ends.
generate_events_return ==
    /\ pc \in {"error_gen_yielded", "ge_error", "ge_ready"}
    /\ pc' = "done"
    /\ UNCHANGED <<request, client, events, responses, searchCalls, search, attempts, proc, output,
                   StreamVars>>

SseSuspended == {"error_gen_created", "error_gen_yielded",
                 "generate_events_created",
                 "ge_searching", "ge_found_initial", "ge_found_detailed",
                 "ge_error", "ge_ready"}

\* The write to the client failed: the server closes the generator where
\* it is suspended.  GeneratorExit is no Exception, and generate_events has
\* no finally block.
generate_events_close ==
    /\ client = "gone"
    /\ pc \in SseSuspended
    /\ pc' = "closed"
    /\ UNCHANGED <<request, client, events, responses, searchCalls, search, attempts, proc, output,
                   StreamVars>>

\* --------------------------------------------------- the yt-dlp processes

\* A yt-dlp process ends on its own, having written its output: JSON or
\* not from --dump-json, a line from --get-url.
YtDlpExit(p) ==
    /\ proc[p].state = "running"
    /\ \E code \in ExitCodes,
          out \in IF p = "url" THEN BoundedSeq(OutTokens, MaxOutLen) ELSE {<<>>},
          json \in IF p = "info" THEN JsonKinds ELSE {"json"},
          err \in BoundedSeq(ErrBytes, MaxErrLen) :
        /\ p = "info" =>
               (search.candidates[attempts[Len(attempts)]] = "resolves")
                   = (code = 0 /\ json = "json")
        /\ proc' = [proc EXCEPT ![p].state = "exited", ![p].code = <<code>>]
        /\ output' = [output EXCEPT
                          ![p] = [stdout |-> out, json |-> json, stderr |-> err]]
    /\ UNCHANGED <<request, pc, client, events, responses, searchCalls, search, attempts, StreamVars>>

InfoExit == YtDlpExit("info")

UrlExit == YtDlpExit("url")

\* ------------------------------------------------- stream_audio, resolving

\* The check of the exit code left out.
UrlOutcomeIgnoresCode(returncode, stdout, stderr) ==
    IF DecodeRaises(stdout)
    THEN <<MakeResponse(500, "text/plain", "server_issue", <<>>)>>
    ELSE IF ~StartsWithHttp(Strip(stdout))
    THEN <<MakeResponse(502, "text/plain", "invalid_url", <<>>)>>
    ELSE <<>>

\* The check of the URL's scheme left out.
UrlOutcomeNoUrlCheck(returncode, stdout, stderr) ==
    IF returncode # 0
    THEN <<MakeResponse(502, "text/plain", "ytdlp_failed",
                        Strip(DecodeIgnore(stderr)))>>
    ELSE IF DecodeRaises(stdout)
    THEN <<MakeResponse(500, "text/plain", "server_issue", <<>>)>>
    ELSE <<>>

\* What follows communicate() in stream_audio: the Response returned, or
\* nothing when the URL is good and the function goes on to ffmpeg.
UrlOutcome(returncode, stdout, stderr) ==
    IF returncode # 0
    THEN <<MakeResponse(502, "text/plain", "ytdlp_failed",
                        Strip(DecodeIgnore(stderr)))>>
    ELSE IF DecodeRaises(stdout)
    THEN <<MakeResponse(500, "text/plain", "server_issue", <<>>)>>
    ELSE IF ~StartsWithHttp(Strip(stdout))
    THEN <<MakeResponse(502, "text/plain", "invalid_url", <<>>)>>
    ELSE <<>>

\* The route function up to communicate(): the video_id check, then Popen
\* of the get-url command, which may raise.
stream_audio ==
    \E video_id \in VideoIds :
        /\ pc = "idle"
        /\ request' = [route |-> "stream_audio", arg |-> video_id]
        /\ IF video_id = ""
           THEN /\ Return(MakeResponse(400, "application/json",
                                       "video_id_required", <<>>))
                /\ pc' = "done"
                /\ UNCHANGED proc
           ELSE \/ /\ Popen("url")
                   /\ pc' = "sa_communicate"
                   /\ UNCHANGED responses
                \/ /\ Return(MakeResponse(500, "text/plain", "server_issue",
                                          <<>>))
                   /\ pc' = "done"
                   /\ UNCHANGED proc
        /\ UNCHANGED <<client, events, searchCalls, search, attempts, output, StreamVars>>

\* communicate(timeout=20) returns: the child has exited.
stream_audio_communicate ==
    /\ pc = "sa_communicate"
    /\ proc["url"].state = "exited"
    /\ Communicated("url")
    /\ LET r == UrlOutcome(proc["url"].code[1], output["url"].stdout,
                           output["url"].stderr)
       IN /\ responses' = responses \o r
          /\ pc' = IF r = <<>> THEN "sa_popen_ffmpeg" ELSE "done"
          \* Past this point nothing reads stdout_url and stderr_url again.
          /\ output' = IF r = <<>> THEN [output EXCEPT !["url"] = NoOutput]
                        ELSE output
    /\ UNCHANGED <<request, client, events, searchCalls, search, attempts, StreamVars>>

\* TimeoutExpired with no handler of its own: `except Exception` takes it.
stream_audio_timeout_generic ==
    /\ pc = "sa_communicate"
    /\ proc["url"].state = "running"
    /\ Return(MakeResponse(500, "text/plain", "server_issue", <<>>))
    /\ pc' = "done"
    /\ UNCHANGED <<request, client, events, searchCalls, search, attempts, proc, output,
                   StreamVars>>

\* communicate(timeout=20) raises TimeoutExpired: the child still runs.
\* The handler of the exception only logs and returns.
stream_audio_timeout ==
    /\ pc = "sa_communicate"
    /\ proc["url"].state = "running"
    /\ Return(MakeResponse(504, "text/plain", "timed_out", <<>>))
    /\ pc' = "done"
    /\ UNCHANGED <<request, client, events, searchCalls, search, attempts, proc, output,
                   StreamVars>>

\* Popen of ffmpeg, and the return of the streamed Response around the
\* generator, whose body has not started to run.
stream_audio_ffmpeg ==
    /\ pc = "sa_popen_ffmpeg"
    /\ \/ /\ Popen("ffmpeg")
          /\ ff' = [stdout |-> "open", stderr |-> "open", blocked |-> "no"]
          /\ Return(MakeResponse(200, "audio/webm", "stream", <<>>))
          /\ pc' = "gac_created"
       \/ /\ Return(MakeResponse(503, "text/plain", "ffmpeg_not_found", <<>>))
          /\ pc' = "done"
          /\ UNCHANGED <<proc, ff>>
       \/ /\ Return(MakeResponse(500, "text/plain", "could_not_start", <<>>))
          /\ pc' = "done"
          /\ UNCHANGED <<proc, ff>>
    /\ UNCHANGED <<request, client, events, searchCalls, search, attempts, output, written,
                   stdoutPipe, stderrPipe, buf, delivered, cause>>

\* ------------------------------------------------------- the ffmpeg child

Min(a, b) == IF a < b THEN a ELSE b

FfmpegRuns == proc["ffmpeg"].state = "running"

\* The child is gone: the kernel closes its ends of both pipes.
FfmpegGone(code) ==
    /\ proc' = [proc EXCEPT !["ffmpeg"].state = "exited",
                            !["ffmpeg"].code = <<code>>]
    /\ ff' = [stdout |-> "closed", stderr |-> "closed", blocked |-> "no"]

\* ffmpeg writes one byte of audio to pipe:1, or blocks in the write when
\* the pipe is full.
FfmpegWriteStdout ==
    \E b \in Bytes :
        /\ FfmpegRuns
        /\ ff.blocked = "no"
        /\ proc["ffmpeg"].stdout = "open"
        /\ Len(written) < MaxStream
        /\ IF Len(stdoutPipe) < PipeCap
           THEN /\ stdoutPipe' = Append(stdoutPipe, b)
                /\ written' = Append(written, b)
                /\ UNCHANGED ff
           ELSE /\ ff' = [ff EXCEPT !.blocked = "stdout"]
                /\ UNCHANGED <<stdoutPipe, written>>
        /\ UNCHANGED <<request, pc, client, events, responses, searchCalls, search, attempts, proc, output, stderrPipe, buf, delivered, cause>>

\* ffmpeg writes one byte of log to its stderr, or blocks in the write when
\* the pipe is full.
FfmpegWriteStderr ==
    /\ FfmpegRuns
    /\ ff.blocked = "no"
    /\ ff.stderr = "open"
    /\ IF stderrPipe < StderrCap
       THEN /\ stderrPipe' = stderrPipe + 1
            /\ UNCHANGED ff
       ELSE /\ ff' = [ff EXCEPT !.blocked = "stderr"]
            /\ UNCHANGED stderrPipe
    /\ UNCHANGED <<request, pc, client, events, responses, searchCalls, search, attempts, proc,
                   output, written, stdoutPipe, buf, delivered, cause>>

\* A child may close its stderr and keep running.
FfmpegCloseStderr ==
    /\ FfmpegRuns
    /\ ff.blocked = "no"
    /\ ff.stderr = "open"
    /\ ff' = [ff EXCEPT !.stderr = "closed"]
    /\ UNCHANGED <<request, pc, client, events, responses, searchCalls, search, attempts, proc,
                   output, written, stdoutPipe, stderrPipe, buf, delivered,
                   cause>>

\* ffmpeg ends on its own (the input is over, or it fails).
FfmpegExit ==
    \E code \in ExitCodes :
        /\ FfmpegRuns
        /\ ff.blocked = "no"
        /\ FfmpegGone(code)
        /\ UNCHANGED <<request, pc, client, events, responses, searchCalls, search, attempts, output, written, stdoutPipe, stderrPipe, buf,
                       delivered, cause>>

\* The read end of pipe:1 is closed: a write to it, pending or new, ends
\* ffmpeg with SIGPIPE.  ffmpeg may as well not write at all.
FfmpegSigpipe ==
    /\ FfmpegRuns
    /\ ff.blocked # "stderr"
    /\ proc["ffmpeg"].stdout = "closed"
    /\ FfmpegGone(-13)
    /\ UNCHANGED <<request, pc, client, events, responses, searchCalls, search, attempts, output, written, stdoutPipe, stderrPipe, buf, delivered,
                   cause>>

\* SIGTERM ends ffmpeg if and when ffmpeg honours it.
FfmpegTerminated ==
    /\ FfmpegRuns
    /\ proc["ffmpeg"].terminated
    /\ FfmpegGone(-15)
    /\ UNCHANGED <<request, pc, client, events, responses, searchCalls, search, attempts, output, written, stdoutPipe, stderrPipe, buf, delivered,
                   cause>>

\* SIGKILL ends it.
FfmpegKilled ==
    /\ FfmpegRuns
    /\ proc["ffmpeg"].killed
    /\ FfmpegGone(-9)
    /\ UNCHANGED <<request, pc, client, events, responses, searchCalls, search, attempts, output, written, stdoutPipe, stderrPipe, buf, delivered,
                   cause>>

\* ------------------------------------------------- generate_audio_chunks

\* The first next(): the body runs up to the first read.
generate_audio_chunks_start ==
    /\ pc = "gac_created"
    /\ pc' = "gac_read"
    /\ UNCHANGED <<request, client, events, responses, searchCalls, search, attempts, proc,
                   output, StreamVars>>

\* The response is closed before its body was asked for: close() of a
\* generator that never started runs none of its body, and so no finally.
generate_audio_chunks_close_unstarted ==
    /\ pc = "gac_created"
    /\ client = "gone"
    /\ pc' = "closed"
    /\ UNCHANGED <<request, client, events, responses, searchCalls, search, attempts, proc,
                   output, StreamVars>>

\* A read with no size: everything that is there, however much.
ReadAll(avail, held) == avail

\* read(8192): of what is there, no more than the call still lacks.
ReadCount(avail, held) == Min(avail, ChunkSize - held)

\* Inside stdout.read(8192): the buffered reader takes what the pipe holds,
\* up to what the read still lacks.  Taking from a full pipe lets a blocked
\* write of ffmpeg go on.  stdoutPipe is what ffmpeg wrote and no read() has
\* returned yet, the reader's own read-ahead included.
generate_audio_chunks_read ==
    /\ pc = "gac_read"
    /\ stdoutPipe # <<>>
    /\ Len(buf) < ChunkSize
    /\ LET k == ReadCount(Len(stdoutPipe), Len(buf))
       IN /\ buf' = buf \o SubSeq(stdoutPipe, 1, k)
          /\ stdoutPipe' = SubSeq(stdoutPipe, k + 1, Len(stdoutPipe))
    /\ ff' = IF ff.blocked = "stdout" THEN [ff EXCEPT !.blocked = "no"] ELSE ff
    /\ UNCHANGED <<request, pc, client, events, responses, searchCalls, search, attempts, proc,
                   output, written, stderrPipe, delivered, cause>>

\* read(8192) returns when it has 8192 bytes, or at the end of the stream
\* with what it has.
ReadReturns ==
    \/ Len(buf) = ChunkSize
    \/ stdoutPipe = <<>> /\ ff.stdout = "closed"

\* A loop that stops at the first short read instead of the empty one.
IsSentinelShortRead(chunk) == Len(chunk) < ChunkSize

\* iter(callable, b''): the value that ends the iteration.
IsSentinel(chunk) == chunk = <<>>

\* read(8192) returns: the chunk is yielded, or the loop ends on b''.
generate_audio_chunks_yield ==
    /\ pc = "gac_read"
    /\ ReadReturns
    /\ IF IsSentinel(buf)
       THEN /\ pc' = "fin_close_stdout"
            /\ cause' = "eof"
            /\ UNCHANGED <<buf, delivered>>
       ELSE /\ pc' = "gac_yield"
            /\ delivered' = delivered \o buf
            /\ UNCHANGED <<buf, cause>>
    /\ UNCHANGED <<request, client, events, responses, searchCalls, search, attempts, proc,
                   output, ff, written, stdoutPipe, stderrPipe>>

\* read(8192) raises: `except Exception` logs it; what the read held is lost.
generate_audio_chunks_exception ==
    /\ pc = "gac_read"
    /\ pc' = "fin_close_stdout"
    /\ cause' = "exception"
    /\ buf' = <<>>
    /\ UNCHANGED <<request, client, events, responses, searchCalls, search, attempts, proc,
                   output, ff, written, stdoutPipe, stderrPipe, delivered>>

\* The consumer took the chunk and asks for the next one.
generate_audio_chunks_next ==
    /\ pc = "gac_yield"
    /\ pc' = "gac_read"
    /\ buf' = <<>>
    /\ UNCHANGED <<request, client, events, responses, searchCalls, search, attempts, proc,
                   output, ff, written, stdoutPipe, stderrPipe, delivered,
                   cause>>

\* The write of the chunk to the client failed: the server closes the
\* generator, GeneratorExit is raised at the yield and the finally runs.
generate_audio_chunks_close ==
    /\ pc = "gac_yield"
    /\ client = "gone"
    /\ pc' = "fin_close_stdout"
    /\ cause' = "disconnect"
    /\ buf' = <<>>
    /\ UNCHANGED <<request, client, events, responses, searchCalls, search, attempts, proc,
                   output, ff, written, stdoutPipe, stderrPipe, delivered>>

\* finally: ffmpeg_process.stdout.close().  What the pipe held is dropped.
finally_close_stdout ==
    /\ pc = "fin_close_stdout"
    /\ proc' = [proc EXCEPT !["ffmpeg"].stdout = "closed"]
    /\ stdoutPipe' = <<>>
    /\ pc' = "fin_read_stderr"
    /\ UNCHANGED <<request, client, events, responses, searchCalls, search, attempts, output,
                   ff, written, stderrPipe, buf, delivered, cause>>

\* Inside ffmpeg_process.stderr.read(): it takes what the pipe holds, which
\* lets a blocked write of ffmpeg go on, and goes on reading.
finally_read_stderr ==
    /\ pc = "fin_read_stderr"
    /\ stderrPipe > 0
    /\ stderrPipe' = 0
    /\ ff' = IF ff.blocked = "stderr" THEN [ff EXCEPT !.blocked = "no"] ELSE ff
    /\ UNCHANGED <<request, pc, client, events, responses, searchCalls, search, attempts, proc,
                   output, written, stdoutPipe, buf, delivered, cause>>

\* stderr.read() returns, at the end of the stream only: every write end of
\* the pipe is closed.  Then stderr.close().
finally_close_stderr ==
    /\ pc = "fin_read_stderr"
    /\ stderrPipe = 0
    /\ ff.stderr = "closed"
    /\ proc' = [proc EXCEPT !["ffmpeg"].stderr = "closed"]
    /\ pc' = "fin_poll"
    /\ UNCHANGED <<request, client, events, responses, searchCalls, search, attempts, output,
                   StreamVars>>

\* poll(): the exit status if the child has ended; otherwise terminate().
finally_poll ==
    /\ pc = "fin_poll"
    /\ IF proc["ffmpeg"].state = "exited"
       THEN /\ proc' = [proc EXCEPT
                            !["ffmpeg"].returncode = proc["ffmpeg"].code]
            /\ pc' = "fin_complete"
       ELSE /\ proc' = [proc EXCEPT !["ffmpeg"].terminated = TRUE]
            /\ pc' = "fin_wait"
    /\ UNCHANGED <<request, client, events, responses, searchCalls, search, attempts, output,
                   StreamVars>>

\* wait(timeout=5) returns: the child has ended.
finally_wait ==
    /\ pc = "fin_wait"
    /\ proc["ffmpeg"].state = "exited"
    /\ proc' = [proc EXCEPT !["ffmpeg"].returncode = proc["ffmpeg"].code]
    /\ pc' = "fin_complete"
    /\ UNCHANGED <<request, client, events, responses, searchCalls, search, attempts, output,
                   StreamVars>>

\* wait(timeout=5) raises TimeoutExpired: kill(), and nothing after it.
finally_kill ==
    /\ pc = "fin_wait"
    /\ proc["ffmpeg"].state = "running"
    /\ proc' = [proc EXCEPT !["ffmpeg"].killed = TRUE]
    /\ pc' = "fin_complete"
    /\ UNCHANGED <<request, client, events, responses, searchCalls, search, attempts, output,
                   StreamVars>>

\* "Cleanup complete": the generator ends, or GeneratorExit goes on.
finally_complete ==
    /\ pc = "fin_complete"
    /\ pc' = IF cause = "disconnect" THEN "closed" ELSE "done"
    /\ UNCHANGED <<request, client, events, responses, searchCalls, search, attempts, proc,
                   output, StreamVars>>

SseNext ==
    \/ search_and_prepare_song_sse
    \/ error_gen
    \/ generate_events_start
    \/ generate_events_search
    \/ generate_events_popen
    \/ generate_events_communicate
    \/ generate_events_timeout
    \/ generate_events_ready
    \/ generate_events_return
    \/ generate_events_close

ResolveNext ==
    \/ stream_audio
    \/ stream_audio_communicate
    \/ stream_audio_timeout
    \/ stream_audio_ffmpeg

\* The relay, but for a read that raises.
RelayNext ==
    \/ generate_audio_chunks_start
    \/ generate_audio_chunks_close_unstarted
    \/ generate_audio_chunks_read
    \/ generate_audio_chunks_yield
    \/ generate_audio_chunks_next
    \/ generate_audio_chunks_close

CleanupNext ==
    \/ finally_close_stdout
    \/ finally_read_stderr
    \/ finally_close_stderr
    \/ finally_poll
    \/ finally_wait
    \/ finally_kill
    \/ finally_complete

\* Every step of the handlers' own code.
Scheduled == SseNext \/ ResolveNext \/ RelayNext \/ CleanupNext

Program == Scheduled \/ generate_audio_chunks_exception

\* Every step of the environment.
Environment ==
    \/ ClientDisconnect
    \/ InfoExit
    \/ UrlExit
    \/ FfmpegWriteStdout
    \/ FfmpegWriteStderr
    \/ FfmpegCloseStderr
    \/ FfmpegExit
    \/ FfmpegSigpipe
    \/ FfmpegTerminated
    \/ FfmpegKilled

Next == Program \/ Environment

Spec == Init /\ [][Next]_vars

\* The thread that serves the request keeps running, the timers of
\* communicate() and wait() fire, and SIGKILL cannot be ignored.  Nothing
\* obliges a read to raise, or a child to write, to exit or to honour
\* SIGTERM.
FairSpec == Spec /\ WF_vars(Scheduled) /\ WF_vars(FfmpegKilled)

\* ------------------------------------------- the cleanup block, run again

\* A read() of a file object that was closed raises ValueError.
ReadRaisesValueError(p) == proc[p].stderr = "closed"

\* The finally block of generate_audio_chunks entered a second time, after
\* it ran to "Cleanup complete".  The generator itself never does this.
finally_rerun ==
    /\ pc = "fin_complete"
    /\ pc' = "rerun_close_stdout"
    /\ UNCHANGED <<request, client, events, responses, searchCalls, search,
                   attempts, proc, output, StreamVars>>

\* `if ffmpeg_process.stdout: ffmpeg_process.stdout.close()`: the file
\* object is true whether closed or not, and close() of a closed one does
\* nothing.
rerun_close_stdout ==
    /\ pc = "rerun_close_stdout"
    /\ proc' = [proc EXCEPT !["ffmpeg"].stdout = "closed"]
    /\ pc' = "rerun_read_stderr"
    /\ UNCHANGED <<request, client, events, responses, searchCalls, search,
                   attempts, output, StreamVars>>

\* `if ffmpeg_process.stderr: ... ffmpeg_process.stderr.read()`: the file
\* object is true whether closed or not; the read of a closed one raises,
\* and the exception leaves the block.
rerun_read_stderr ==
    /\ pc = "rerun_read_stderr"
    /\ pc' = IF ReadRaisesValueError("ffmpeg") THEN "rerun_raised"
             ELSE "fin_read_stderr"
    /\ UNCHANGED <<request, client, events, responses, searchCalls, search,
                   attempts, proc, output, StreamVars>>

RerunNext ==
    \/ finally_rerun
    \/ rerun_close_stdout
    \/ rerun_read_stderr

\* One request, and a caller that runs the cleanup block a second time.
RerunSpec == Init /\ [][Next \/ RerunNext]_vars

\* ============================================================ properties

SseRoute == request.route = "search_and_prepare_song_sse"
StreamRoute == request.route = "stream_audio"

\* No code of the handler can run for the request any more.
RequestOver == pc \in {"done", "closed"}

Spawned(p) == proc[p].state # "none"
StillRunning(p) == proc[p].state = "running"
PipesClosed(p) == proc[p].stdout = "closed" /\ proc[p].stderr = "closed"

Statuses == [i \in 1..Len(events) |-> events[i].status]
TerminalEvents == {i \in 1..Len(events) :
                       events[i].status \in {"ready_to_stream", "error"}}
ErrorStatuses == {400, 500, 502, 503, 504}

\* C1: every process a request spawned has ended and has both its pipes
\* closed once the request is over, whichever way the request ended.
C1_EveryProcessEndedAndClosed ==
    RequestOver =>
        \A p \in ProcIds : Spawned(p) => ~StillRunning(p) /\ PipesClosed(p)

\* C2: once the resolve timeout has been reported (the "timed out" event of
\* the SSE feed, the 504 of stream_audio), the yt-dlp process it was waiting
\* for is not running.
C2_TimeoutKillsProcess ==
    /\ (\E i \in 1..Len(events) : events[i].kind = "timed_out")
           => ~StillRunning("info")
    /\ (\E i \in 1..Len(responses) : responses[i].status = 504)
           => ~StillRunning("url")

\* C3: a request has one terminal outcome.  An SSE feed holds at most one
\* of ready_to_stream and error, it is the last event, and a feed that ran
\* to its end holds exactly one.  stream_audio returns one Response, an
\* error (400/500/502/503/504) or the audio/webm stream, never two.
C3_OneTerminalOutcome ==
    /\ Cardinality(TerminalEvents) <= 1
    /\ \A i \in TerminalEvents : i = Len(events)
    /\ SseRoute /\ pc = "done" => Cardinality(TerminalEvents) = 1
    /\ Len(responses) <= 1
    /\ StreamRoute => events = <<>>
    /\ StreamRoute /\ RequestOver =>
           /\ Len(responses) = 1
           /\ \/ responses[1].status \in ErrorStatuses
              \/ responses[1].status = 200 /\ responses[1].mimetype = "audio/webm"

\* An SSE feed that ended on an error after it had announced a match.
C3_Witness ==
    /\ SseRoute
    /\ pc = "done"
    /\ Len(events) = 3
    /\ events[3].status = "error"
    /\ events[2].status = "found_initial"

Stages == <<"searching", "found_initial", "found_detailed", "ready_to_stream">>

\* C4: the events of a feed are searching, found_initial, found_detailed,
\* ready_to_stream in this order, none twice and none skipped; an error
\* event may take the place of any of them and is then the last.
C4_StrictEventOrder ==
    /\ Len(events) <= Len(Stages)
    /\ \A i \in 1..Len(events) :
           \/ events[i].status = Stages[i]
           \/ events[i].status = "error" /\ i = Len(events)

\* A feed that went through all four stages.
C4_Witness == Len(events) = 4 /\ Statuses = Stages

C6_ExtractionFailureIsServerError ==
    StreamRoute /\ proc["url"].returncode \notin {<<>>, <<0>>} =>
        /\ ~Spawned("ffmpeg")
        /\ Len(responses) = 1
        /\ responses[1].status \in {500, 502}
        /\ responses[1].kind = "ytdlp_failed"
        /\ Contains(DecodeIgnore(output["url"].stderr), responses[1].text)
        /\ (\E i \in 1..Len(output["url"].stderr) :
                output["url"].stderr[i] \notin {" ", "#"})
               => responses[1].text # <<>>

\* yt-dlp exited with code 1 and a message between blanks.
C6_Witness ==
    /\ StreamRoute
    /\ proc["url"].returncode = <<1>>
    /\ output["url"].stderr = <<" ", "e">>
    /\ Len(responses) = 1
    /\ responses[1].text = <<"e">>

\* C7: when ffmpeg exited with a non-zero code, or wrote no byte, and the
\* relay read its output to the end, the request did not end as a success
\* response.
C7_FfmpegFailureIsNotSuccess ==
    /\ StreamRoute
    /\ pc = "done"
    /\ cause = "eof"
    /\ (proc["ffmpeg"].returncode # <<0>> \/ written = <<>>)
    => \A i \in 1..Len(responses) : responses[i].status # 200

\* C8: while the relay runs, ffmpeg is never stalled in a write to a full
\* stderr pipe.
C8_NeverStalledOnStderr ==
    pc \in {"gac_read", "gac_yield"} => ff.blocked # "stderr"

\* C9: after the client disconnected in mid-stream, ffmpeg comes to an end,
\* whether or not it ends on its own once its stdout is closed.
C9_EndsAfterDisconnect ==
    (cause = "disconnect") ~> (~StillRunning("ffmpeg"))

RECURSIVE IsPrefix(_, _)
IsPrefix(s, t) ==
    \/ s = <<>>
    \/ /\ t # <<>>
       /\ Head(s) = Head(t)
       /\ IsPrefix(Tail(s), Tail(t))

\* C10: the chunks yielded, put end to end, are at every moment the first
\* bytes ffmpeg wrote, in the order it wrote them; when the relay has read
\* to the end of the stream they are all of them.
C10_ByteOrderPreserved ==
    /\ IsPrefix(delivered, written)
    /\ cause = "eof" => delivered = written

\* A stream of several chunks and a short last one, relayed to its end.
C10_Witness ==
    /\ cause = "eof"
    /\ Len(written) > 2 * ChunkSize
    /\ Len(written) % ChunkSize # 0
    /\ delivered = written

\* The rank of the first entry that resolves, 0 when none does.
FirstResolving ==
    IF \E k \in 1..Len(search.candidates) : search.candidates[k] = "resolves"
    THEN CHOOSE k \in 1..Len(search.candidates) :
             /\ search.candidates[k] = "resolves"
             /\ \A j \in 1..(k - 1) : search.candidates[j] = "fails"
    ELSE 0

\* C11: when the first K entries of the search results fail and entry K+1
\* resolves, a feed that ran to its end with yt-dlp started and answering in
\* time tried the entries 1..K+1 in rank order and ended on ready_to_stream,
\* with no error event.
C11_RetriesNextCandidate ==
    /\ SseRoute
    /\ pc = "done"
    /\ search.result = "song"
    /\ FirstResolving > 0
    /\ \A i \in 1..Len(events) : events[i].kind \notin {"timed_out", "unexpected"}
    => /\ attempts = [k \in 1..FirstResolving |-> k]
       /\ events[Len(events)].status = "ready_to_stream"
       /\ \A i \in 1..Len(events) : events[i].status # "error"

SignalsOnlyWhileRunning ==
    [][(proc'["ffmpeg"].terminated /\ ~proc["ffmpeg"].terminated)
           \/ (proc'["ffmpeg"].killed /\ ~proc["ffmpeg"].killed)
       => proc["ffmpeg"].state = "running"]_vars

\* What read() calls took from ffmpeg's stdout, in bytes.
TakenFromStdout == Len(written) - Len(stdoutPipe)

\* C13: while the relay loop runs, what was read from ffmpeg's stdout and
\* not yet handed to the consumer is at most one chunk of at most 8192
\* bytes, and while the consumer holds a chunk nothing more has been read.
C13_AtMostOneChunkHeld ==
    /\ Len(buf) <= ChunkSize
    /\ pc = "gac_read" => TakenFromStdout - Len(delivered) = Len(buf)
    /\ pc = "gac_yield" => TakenFromStdout = Len(delivered)

\* A full chunk is with the consumer, an earlier one was delivered, and
\* the pipe is full of what ffmpeg wrote since.
C13_Witness ==
    /\ pc = "gac_yield"
    /\ Len(buf) = ChunkSize
    /\ Len(delivered) > ChunkSize
    /\ Len(stdoutPipe) > 0

\* communicate() was left by TimeoutExpired: the process was started and
\* no exit status was ever collected for it.
TimedOut(p, communicating) ==
    /\ Spawned(p)
    /\ pc # communicating
    /\ proc[p].returncode = <<>>

\* C14: stream_audio answers 504 exactly when the get-url step timed out,
\* and the SSE feed carries the 'timed out' error event exactly when the
\* metadata step timed out, and then no other error event.
C14_TimeoutSurfacedDistinctly ==
    /\ StreamRoute =>
           \A i \in 1..Len(responses) :
               /\ (responses[i].status = 504) = TimedOut("url", "sa_communicate")
               /\ (responses[i].kind = "timed_out") = (responses[i].status = 504)
    /\ SseRoute =>
           /\ (\E i \in 1..Len(events) : events[i].kind = "timed_out")
                  = TimedOut("info", "ge_communicate")
           /\ TimedOut("info", "ge_communicate") =>
                  \A i \in 1..Len(events) :
                      events[i].status = "error" => events[i].kind = "timed_out"

\* The get-url step timed out and the 504 was returned, the child running.
C14_Witness ==
    /\ StreamRoute
    /\ responses # <<>>
    /\ responses[1].status = 504
    /\ StillRunning("url")

\* The longest stderr excerpt an error message may carry.  The code names
\* no such bound; the outcome is the same for any bound below MaxErrLen.
ExcerptBound == 1

\* C15: when yt-dlp failed with a stderr longer than the excerpt bound, the
\* stderr text in the error reported to the client (the SSE error event,
\* the 502 of stream_audio) is strictly shorter than the captured stderr.
C15_StderrExcerptIsBounded ==
    /\ \A i \in 1..Len(events) :
           /\ events[i].kind = "fetch_failed"
           /\ Len(output["info"].stderr) > ExcerptBound
           => Len(events[i].text) < Len(output["info"].stderr)
    /\ \A i \in 1..Len(responses) :
           /\ responses[i].kind = "ytdlp_failed"
           /\ Len(output["url"].stderr) > ExcerptBound
           => Len(responses[i].text) < Len(output["url"].stderr)

\* The get-url step ended well: yt-dlp has exited, within the timeout, with
\* code 0, and its output, trimmed, starts with http:// or https://.
ResolveSucceeds ==
    /\ proc["url"].state = "exited"
    /\ proc["url"].code = <<0>>
    /\ ~DecodeRaises(output["url"].stdout)
    /\ StartsWithHttp(Strip(output["url"].stdout))

\* C16: stream_audio starts ffmpeg only past a get-url step that ended
\* well; a request of stream_audio that left that step any other way has
\* an error response and no ffmpeg process.
C16_FfmpegOnlyAfterResolve ==
    /\ [][pc # "sa_popen_ffmpeg" /\ pc' = "sa_popen_ffmpeg"
          => pc = "sa_communicate" /\ ResolveSucceeds]_vars
    /\ [][~Spawned("ffmpeg") /\ proc'["ffmpeg"].state # "none"
          => pc = "sa_popen_ffmpeg"]_vars
    /\ [](Spawned("ffmpeg") => proc["url"].returncode = <<0>>)
    /\ [](/\ StreamRoute
          /\ pc \notin {"sa_communicate", "sa_popen_ffmpeg"}
          /\ ~Spawned("ffmpeg")
          => /\ Len(responses) = 1
             /\ responses[1].status \in ErrorStatuses)

\* ffmpeg was started, the get-url process having exited with code 0.
C16_Witness ==
    /\ pc = "gac_created"
    /\ Spawned("ffmpeg")
    /\ proc["url"].returncode = <<0>>

\* C17: when the cleanup block of generate_audio_chunks reaches its last
\* line, ffmpeg has been waited for and its exit status is recorded.
C17_ReapedAtCleanupComplete ==
    pc = "fin_complete" => proc["ffmpeg"].returncode # <<>>

\* C18: in the SSE flow the metadata process is started only for a search
\* that gave a first entry with a videoId; ready_to_stream is announced
\* only after that process exited with code 0 and printed JSON; an empty
\* result list or an empty videoId gives an error event and no process.
C18_MetadataOnlyForFoundSong ==
    SseRoute =>
        /\ Spawned("info") => search.result = "song"
        /\ (\E i \in 1..Len(events) : events[i].status = "ready_to_stream")
               => /\ proc["info"].state = "exited"
                  /\ proc["info"].returncode = <<0>>
                  /\ output["info"].json = "json"
        /\ search.result \in {"empty", "empty_id"}
               => /\ ~Spawned("info")
                  /\ Len(events) = 2
                  /\ events[2].status = "error"
                  /\ events[2].kind = (IF search.result = "empty"
                                       THEN "no_songs" ELSE "no_video_id")

\* The feed ran to ready_to_stream.
C18_Witness ==
    /\ SseRoute
    /\ pc = "done"
    /\ Spawned("info")
    /\ events[Len(events)].status = "ready_to_stream"

====
